---- MODULE Spec2Model ----
(***************************************************************************)
(* Session registry of src/hello/hello.ts: two-party chat sessions kept in *)
(* module-level Maps, driven by request handlers.  A handler runs to its   *)
(* first `await` without interruption (one JavaScript thread); the only    *)
(* `await` that suspends a handler in the middle of its work is the call   *)
(* of generateAIResponse inside `send`, so `send` on a session with an AI  *)
(* participant is two steps (send, sendResume) and every other handler is  *)
(* one step.  Arrays are JavaScript objects: a Map entry and a suspended   *)
(* handler's local variable may name the same array or different ones, so  *)
(* message arrays live in a heap and the Maps hold references.             *)
(***************************************************************************)
EXTENDS Integers, Sequences, FiniteSets

\* ---------------------------------------------------------------- bounds
MaxClock == 6       \* StoredMessage objects ever created (a reply is reserved
                    \* for every suspended send)
MaxInflight == 3    \* send handlers suspended at the await at one time
MaxSteps == 6       \* handler steps taken in one run of Spec and SpecGemini
MaxRoomSteps == 9   \* handler steps taken in one run of SpecRoom
MaxLiveClock == 4   \* StoredMessage objects created in one run of SpecLive

\* ------------------------------------------------------------ input sets
UserIds == {"u1", "u2", "ai_u"}          \* caller-supplied user_id values
SessionIds == {"human_a", "room"}        \* caller-supplied session_id values
AiNames == <<"ai_1", "ai_2", "ai_3", "ai_4", "ai_5">>
AiIds == {AiNames[i] : i \in DOMAIN AiNames}   \* values createAIParticipant returns
Texts == {"hi"}                          \* caller-supplied message texts
Guesses == {"ai", "human"}
Variants == {"ollama", "gemini"}         \* the two copies of the handlers

None == "undefined"                      \* Map.get on a missing key (string-valued Maps)
NoRef == 0                               \* Map.get on a missing key (array-valued Maps)

HumanPrefixed == {"human_a"}             \* ids for which startsWith("human")
AiPrefixed == AiIds \cup {"ai_u"}        \* ids for which startsWith("ai_")

Refs == 1 .. (2 * Cardinality(SessionIds) + 2 * MaxInflight)

VARIABLES
    variant,              \* which copy of the handlers this process runs
                          \* (lines 1-436 or lines 438-879)
    sessions,             \* line 59: session_id -> participant array; <<>> when
                          \* the key is absent (no empty array is ever stored)
    userToSession,        \* line 60: user_id -> session_id, or None
    sessionMessages,      \* line 61: session_id -> reference of the outbox array,
                          \* or NoRef
    conversationHistory,  \* line 62: session_id -> reference of the transcript
                          \* array, or NoRef
    sessionTypes,         \* line 63: session_id -> "ai" | "human", or None
    aiSessions,           \* line 64: set of session ids
    heap,                 \* reference -> array of StoredMessage
    inflight,             \* send handlers suspended at line 249, each with the
                          \* locals it still uses
    now,                  \* number of StoredMessage objects created so far; the
                          \* next one is stamped now + 1
    steps,                \* handler steps taken so far
    received,             \* history: <<user, timestamp>> pairs receive has returned
    audience,             \* history: <<timestamp, user>> for every id in the
                          \* participant list of the session a message was
                          \* stored for, at the time it was stored
    ret                   \* the response (or thrown APIError) of the last finished handler

registry == <<sessions, userToSession, sessionMessages, conversationHistory,
              sessionTypes, aiSessions, heap>>
vars == <<variant, sessions, userToSession, sessionMessages, conversationHistory,
          sessionTypes, aiSessions, heap, inflight, now, steps, received,
          audience, ret>>

\* --------------------------------------------------------------- helpers
Min(S) == CHOOSE x \in S : \A y \in S : x <= y

Range(seq) == {seq[i] : i \in 1 .. Len(seq)}

\* array.includes(x)
Includes(arr, x) == x \in Range(arr)

\* array.filter(id => id !== user_id)
Without(arr, user_id) == SelectSeq(arr, LAMBDA id : id # user_id)

\* string.startsWith("human") / string.startsWith("ai_")
StartsWithHuman(s) == s \in HumanPrefixed
StartsWithAi(s) == s \in AiPrefixed

\* sessions.get(key) || []
GetOrEmpty(map, key) == map[key]

\* references some Map entry or suspended handler still holds
Live(sm, ch, inf) ==
    {sm[s] : s \in SessionIds} \cup {ch[s] : s \in SessionIds}
    \cup {h.existingMessages : h \in inf} \cup {h.persistentHistory : h \in inf}

\* a new array object: any reference nothing holds
Alloc(live) == Min(Refs \ live)

\* arrays nothing references are garbage
Collect(h, sm, ch, inf) ==
    [r \in Refs |-> IF r \in Live(sm, ch, inf) THEN h[r] ELSE <<>>]

\* the array a Map entry names; [] for a missing key (map.get(key) || [])
ArrayOf(map, key) == IF map[key] = NoRef THEN <<>> ELSE heap[map[key]]

\* ------------------------------------------------------------- responses
Ok(op, user, body) == [op |-> op, user |-> user, status |-> "ok", body |-> body]
Err(op, user, code) == [op |-> op, user |-> user, status |-> code, body |-> None]

\* ------------------------------------------------------------------ Init
Start ==
    /\ sessions = [s \in SessionIds |-> <<>>]
    /\ userToSession = [u \in UserIds |-> None]
    /\ sessionMessages = [s \in SessionIds |-> NoRef]
    /\ conversationHistory = [s \in SessionIds |-> NoRef]
    /\ sessionTypes = [s \in SessionIds |-> None]
    /\ aiSessions = {}
    /\ heap = [r \in Refs |-> <<>>]
    /\ inflight = {}
    /\ now = 0
    /\ steps = 0
    /\ received = {}
    /\ audience = {}
    /\ ret = Ok("start", None, None)

\* the first copy of the handlers (lines 1-436, Ollama generator)
Init == variant = "ollama" /\ Start

\* the second copy of the handlers (lines 438-879, Gemini generator)
InitGemini == variant = "gemini" /\ Start

\* ----------------------------------------------------------- joinSession
\* the capacity test off by one / left out
IsFullOffByOne(existingParticipants) == Len(existingParticipants) > 2
IsFullNever(existingParticipants) == FALSE

\* existingParticipants.length >= 2
IsFull(existingParticipants) == Len(existingParticipants) >= 2

\* the reverse-index write every successful join does
SetUserSession(map, user_id, session_id) == [map EXCEPT ![user_id] = session_id]

\* ids some participant list, suspended handler or stored message names
IdsInUse ==
    UNION {Range(sessions[s]) : s \in SessionIds}
    \cup {h.aiParticipant : h \in inflight}
    \cup UNION {{heap[r][i].sender_id : i \in 1 .. Len(heap[r])} : r \in Refs}

\* createAIParticipant(): "ai_" + Date.now() + "_" + random, a value no earlier
\* call returned; which one is immaterial, so the first unused name is taken
CreateAIParticipant ==
    {AiNames[Min({i \in DOMAIN AiNames : AiNames[i] \notin IdsInUse})]}

\* mutant of FreshArrays: an outbox the Map still holds for the id is kept
\* (if (!sessionMessages.has(session_id)) sessionMessages.set(session_id, []))
FreshArraysKeepsOutbox(session_id) ==
    LET old == sessionMessages[session_id]
        kept == Live(sessionMessages,
                     [conversationHistory EXCEPT ![session_id] = NoRef], inflight)
        m == IF old # NoRef THEN old ELSE Alloc(kept)
        c == Alloc(kept \cup {m})
        sm == [sessionMessages EXCEPT ![session_id] = m]
        ch == [conversationHistory EXCEPT ![session_id] = c]
    IN /\ sessionMessages' = sm
       /\ conversationHistory' = ch
       /\ heap' = Collect([heap EXCEPT ![m] = IF old # NoRef THEN heap[m] ELSE <<>>,
                                       ![c] = <<>>], sm, ch, inflight)

\* sessionMessages.set(session_id, []); conversationHistory.set(session_id, [])
FreshArrays(session_id) ==
    LET kept == Live([sessionMessages EXCEPT ![session_id] = NoRef],
                     [conversationHistory EXCEPT ![session_id] = NoRef], inflight)
        m == Alloc(kept)
        c == Alloc(kept \cup {m})
        sm == [sessionMessages EXCEPT ![session_id] = m]
        ch == [conversationHistory EXCEPT ![session_id] = c]
    IN /\ sessionMessages' = sm
       /\ conversationHistory' = ch
       /\ heap' = Collect([heap EXCEPT ![m] = <<>>, ![c] = <<>>], sm, ch, inflight)

joinSession(user_id, session_id) ==
    LET existingParticipants == GetOrEmpty(sessions, session_id) IN
    /\ UNCHANGED <<variant, inflight, now, received, audience>>
    /\ IF Includes(existingParticipants, user_id)
       THEN /\ ret' = Ok("joinSession", user_id, "already_in")
            /\ UNCHANGED registry
       ELSE IF IsFull(existingParticipants)
       THEN /\ ret' = Err("joinSession", user_id, "ResourceExhausted")
            /\ UNCHANGED registry
       ELSE IF Len(existingParticipants) = 0
       THEN IF ~StartsWithHuman(session_id)
            THEN \E aiParticipant \in CreateAIParticipant :
                 /\ sessions' = [sessions EXCEPT ![session_id] = <<user_id, aiParticipant>>]
                 /\ userToSession' = SetUserSession(userToSession, user_id, session_id)
                 /\ sessionTypes' = [sessionTypes EXCEPT ![session_id] = "ai"]
                 /\ aiSessions' = aiSessions \cup {session_id}
                 /\ FreshArrays(session_id)
                 /\ ret' = Ok("joinSession", user_id, "joined")
            ELSE /\ sessions' = [sessions EXCEPT ![session_id] = <<user_id>>]
                 /\ userToSession' = SetUserSession(userToSession, user_id, session_id)
                 /\ sessionTypes' = [sessionTypes EXCEPT ![session_id] = "human"]
                 /\ FreshArrays(session_id)
                 /\ ret' = Ok("joinSession", user_id, "waiting")
                 /\ UNCHANGED aiSessions
       ELSE /\ sessions' = [sessions EXCEPT
                               ![session_id] = Append(existingParticipants, user_id)]
            /\ userToSession' = SetUserSession(userToSession, user_id, session_id)
            /\ ret' = Ok("joinSession", user_id, "joined")
            /\ UNCHANGED <<sessionMessages, conversationHistory, sessionTypes,
                           aiSessions, heap>>

\* ------------------------------------------------------------------ send
\* the audience record of the message about to be stored for a session
\* with these participants
Stamped(participants) == {<<now + 1, p>> : p \in Range(participants)}

StoredMessage(sender_id, message, is_ai) ==
    [sender_id |-> sender_id, message |-> message, timestamp |-> now + 1, is_ai |-> is_ai]

\* participants.find((p) => p.startsWith("ai_"))
FindAi(participants) ==
    IF \E i \in 1 .. Len(participants) : StartsWithAi(participants[i])
    THEN participants[Min({i \in 1 .. Len(participants) : StartsWithAi(participants[i])})]
    ELSE None

\* the matched test off by one
NotMatchedOffByOne(participants) == Len(participants) < 1

\* participants.length < 2
NotMatched(participants) == Len(participants) < 2

\* the first half of send: up to the await of generateAIResponse, or to the
\* end when no reply is generated
send(sender_id, message) ==
    LET sessionId == userToSession[sender_id] IN
    /\ UNCHANGED <<variant, sessions, userToSession, conversationHistory,
                   sessionTypes, aiSessions, received>>
    /\ IF sessionId = None
       THEN /\ ret' = Err("send", sender_id, "NotFound")
            /\ UNCHANGED <<sessionMessages, heap, inflight, now, audience>>
       ELSE
       LET participants == GetOrEmpty(sessions, sessionId) IN
       IF NotMatched(participants)
       THEN /\ ret' = Err("send", sender_id, "FailedPrecondition")
            /\ UNCHANGED <<sessionMessages, heap, inflight, now, audience>>
       ELSE
       LET userMessage == StoredMessage(sender_id, message, FALSE)
           live == Live(sessionMessages, conversationHistory, inflight)
           \* sessionMessages.get(sessionId) || []
           existingMessages == IF sessionMessages[sessionId] = NoRef
                               THEN Alloc(live) ELSE sessionMessages[sessionId]
           \* conversationHistory.get(sessionId) || []
           persistentHistory == IF conversationHistory[sessionId] = NoRef
                                THEN Alloc(live \cup {existingMessages})
                                ELSE conversationHistory[sessionId]
           pushed == [heap EXCEPT
                        ![existingMessages] = Append(heap[existingMessages], userMessage),
                        ![persistentHistory] = Append(heap[persistentHistory], userMessage)]
           aiParticipant == FindAi(participants)
       IN
       IF sessionId \in aiSessions /\ aiParticipant # None
       THEN \* await generateAIResponse(sessionId, message)
            /\ Cardinality(inflight) < MaxInflight
            /\ now + Cardinality(inflight) + 2 <= MaxClock
            /\ now' = now + 1
            /\ inflight' = inflight \cup
                  {[sender_id |-> sender_id, sessionId |-> sessionId,
                    userMessage |-> userMessage, aiParticipant |-> aiParticipant,
                    existingMessages |-> existingMessages,
                    persistentHistory |-> persistentHistory]}
            /\ heap' = Collect(pushed, sessionMessages, conversationHistory, inflight')
            /\ audience' = audience \cup Stamped(participants)
            /\ UNCHANGED <<sessionMessages, ret>>
       ELSE /\ now + Cardinality(inflight) + 1 <= MaxClock
            /\ now' = now + 1
            /\ sessionMessages' = [sessionMessages EXCEPT ![sessionId] = existingMessages]
            /\ heap' = Collect(pushed, sessionMessages', conversationHistory, inflight)
            /\ ret' = Ok("send", sender_id, "sent")
            /\ audience' = audience \cup Stamped(participants)
            /\ UNCHANGED inflight

\* what generateAIResponse can resolve to: the generated text, the fallback
\* for an unexpected response format, the fallback of the catch block, and in
\* the Gemini copy the text returned when no API key is configured
GenerateAIResponse ==
    IF variant = "ollama"
    THEN {"generated", "yeah thats cool", "lol same"}
    ELSE {"generated", "hey whats up", "That's interesting! Tell me more.",
          "I see what you mean. What are your thoughts on that?"}

\* the second half of send: generateAIResponse has resolved
sendResume(h, aiMessage) ==
    LET aiResponse == StoredMessage(h.aiParticipant, aiMessage, TRUE)
        pushed == [heap EXCEPT
                     ![h.existingMessages] = Append(heap[h.existingMessages], aiResponse),
                     ![h.persistentHistory] = Append(heap[h.persistentHistory], aiResponse)]
    IN
    /\ h \in inflight
    /\ now' = now + 1
    /\ inflight' = inflight \ {h}
    /\ sessionMessages' = [sessionMessages EXCEPT ![h.sessionId] = h.existingMessages]
    /\ heap' = Collect(pushed, sessionMessages', conversationHistory, inflight')
    /\ ret' = Ok("send", h.sender_id, "sent")
    /\ audience' = audience \cup Stamped(GetOrEmpty(sessions, h.sessionId))
    /\ UNCHANGED <<variant, sessions, userToSession, conversationHistory,
                   sessionTypes, aiSessions, received>>

\* --------------------------------------------------------------- receive
\* messages.filter((msg) => msg.sender_id !== sid): returned to the caller
Filtered(messages, sid) == SelectSeq(messages, LAMBDA msg : msg.sender_id # sid)

\* messages.filter((msg) => msg.sender_id === sid): kept in the outbox
Remaining(messages, sid) == SelectSeq(messages, LAMBDA msg : msg.sender_id = sid)

\* filteredMessages.map((msg) => msg.message)
MessageStrings(msgs) == [i \in 1 .. Len(msgs) |-> msgs[i].message]

\* the response of receive; `records` keeps the StoredMessages the strings
\* were taken from
Received(sid, filteredMessages) ==
    Ok("receive", sid, [messages |-> MessageStrings(filteredMessages),
                        records |-> filteredMessages])

\* mutant of receive: the retained messages are stored as the transcript too
\* (conversationHistory.set(sessionId, remainingMessages))
receiveTruncatesHistory(sid) ==
    LET sessionId == userToSession[sid] IN
    /\ UNCHANGED <<variant, sessions, userToSession, sessionTypes, aiSessions,
                   inflight, now, audience>>
    /\ IF sessionId = None
       THEN /\ ret' = Received(sid, <<>>)
            /\ UNCHANGED <<sessionMessages, conversationHistory, heap, received>>
       ELSE
       LET messages == ArrayOf(sessionMessages, sessionId)
           filteredMessages == Filtered(messages, sid)
           remainingMessages == Remaining(messages, sid)
           kept == Live([sessionMessages EXCEPT ![sessionId] = NoRef],
                        [conversationHistory EXCEPT ![sessionId] = NoRef], inflight)
           r == Alloc(kept)
       IN /\ sessionMessages' = [sessionMessages EXCEPT ![sessionId] = r]
          /\ conversationHistory' = [conversationHistory EXCEPT ![sessionId] = r]
          /\ heap' = Collect([heap EXCEPT ![r] = remainingMessages],
                             sessionMessages', conversationHistory', inflight)
          /\ received' = received \cup
                {<<sid, filteredMessages[i].timestamp>> : i \in 1 .. Len(filteredMessages)}
          /\ ret' = Received(sid, filteredMessages)

receive(sid) ==
    LET sessionId == userToSession[sid] IN
    /\ UNCHANGED <<variant, sessions, userToSession, conversationHistory,
                   sessionTypes, aiSessions, inflight, now, audience>>
    /\ IF sessionId = None
       THEN /\ ret' = Received(sid, <<>>)
            /\ UNCHANGED <<sessionMessages, heap, received>>
       ELSE
       LET messages == ArrayOf(sessionMessages, sessionId)
           filteredMessages == Filtered(messages, sid)
           remainingMessages == Remaining(messages, sid)
           kept == Live([sessionMessages EXCEPT ![sessionId] = NoRef],
                        conversationHistory, inflight)
           r == Alloc(kept)
       IN /\ sessionMessages' = [sessionMessages EXCEPT ![sessionId] = r]
          /\ heap' = Collect([heap EXCEPT ![r] = remainingMessages],
                             sessionMessages', conversationHistory, inflight)
          /\ received' = received \cup
                {<<sid, filteredMessages[i].timestamp>> : i \in 1 .. Len(filteredMessages)}
          /\ ret' = Received(sid, filteredMessages)

\* ------------------------------------------------- leaveSession / answer
\* mutant of DeleteSession: the aiSessions.delete call is missing
DeleteSessionKeepsAiFlag(sessionId) ==
    /\ sessions' = [sessions EXCEPT ![sessionId] = <<>>]
    /\ sessionMessages' = [sessionMessages EXCEPT ![sessionId] = NoRef]
    /\ conversationHistory' = [conversationHistory EXCEPT ![sessionId] = NoRef]
    /\ sessionTypes' = [sessionTypes EXCEPT ![sessionId] = None]
    /\ UNCHANGED aiSessions
    /\ heap' = Collect(heap, sessionMessages', conversationHistory', inflight)

\* sessions.delete, sessionMessages.delete, conversationHistory.delete,
\* sessionTypes.delete, aiSessions.delete
DeleteSession(sessionId) ==
    /\ sessions' = [sessions EXCEPT ![sessionId] = <<>>]
    /\ sessionMessages' = [sessionMessages EXCEPT ![sessionId] = NoRef]
    /\ conversationHistory' = [conversationHistory EXCEPT ![sessionId] = NoRef]
    /\ sessionTypes' = [sessionTypes EXCEPT ![sessionId] = None]
    /\ aiSessions' = aiSessions \ {sessionId}
    /\ heap' = Collect(heap, sessionMessages', conversationHistory', inflight)

\* mutant of Cleanup: the aiSessions.has branch is missing, a session is
\* torn down only when nobody is left
CleanupKeepsAiSession(user_id, sessionId) ==
    LET participants == GetOrEmpty(sessions, sessionId)
        updatedParticipants == Without(participants, user_id)
    IN /\ IF Len(updatedParticipants) = 0
          THEN DeleteSession(sessionId)
          ELSE /\ sessions' = [sessions EXCEPT ![sessionId] = updatedParticipants]
               /\ UNCHANGED <<sessionMessages, conversationHistory, sessionTypes,
                              aiSessions, heap>>
       /\ userToSession' = [userToSession EXCEPT ![user_id] = None]

\* the removal of the caller from its session, and the teardown of the
\* session when nobody is left or the session has an AI participant
Cleanup(user_id, sessionId) ==
    LET participants == GetOrEmpty(sessions, sessionId)
        updatedParticipants == Without(participants, user_id)
    IN /\ IF Len(updatedParticipants) = 0
          THEN DeleteSession(sessionId)
          ELSE IF sessionId \in aiSessions
          THEN DeleteSession(sessionId)
          ELSE /\ sessions' = [sessions EXCEPT ![sessionId] = updatedParticipants]
               /\ UNCHANGED <<sessionMessages, conversationHistory, sessionTypes,
                              aiSessions, heap>>
       /\ userToSession' = [userToSession EXCEPT ![user_id] = None]

leaveSession(user_id) ==
    LET sessionId == userToSession[user_id] IN
    /\ UNCHANGED <<variant, inflight, now, received, audience>>
    /\ IF sessionId = None
       THEN /\ ret' = Err("leaveSession", user_id, "NotFound")
            /\ UNCHANGED registry
       ELSE /\ Cleanup(user_id, sessionId)
            /\ ret' = Ok("leaveSession", user_id, "left")

\* mutant of IsCorrect: the guess is compared with a fixed kind
IsCorrectOnlyAi(guess, sessionType) == guess = "ai"

\* guess === sessionType
IsCorrect(guess, sessionType) == guess = sessionType

\* the answer handler of the first copy (Ollama): replies, then cleans up
\* as leaveSession does; the answer handler of the second copy (Gemini)
\* replies and changes nothing
answer(user_id, guess) ==
    LET sessionId == userToSession[user_id] IN
    /\ UNCHANGED <<variant, inflight, now, received, audience>>
    /\ IF sessionId = None
       THEN /\ ret' = Err("answer", user_id, "NotFound")
            /\ UNCHANGED registry
       ELSE IF sessionTypes[sessionId] = None
       THEN /\ ret' = Err("answer", user_id, "Internal")
            /\ UNCHANGED registry
       ELSE /\ ret' = Ok("answer", user_id,
                         [correct |-> IsCorrect(guess, sessionTypes[sessionId]),
                          guess |-> guess])
            /\ IF variant = "ollama"
               THEN Cleanup(user_id, sessionId)
               ELSE UNCHANGED registry

\* ------------------------------------------ getSessionInfo / getPendingCount
getSessionInfo(sid) ==
    LET sessionId == userToSession[sid] IN
    /\ UNCHANGED <<variant, inflight, now, received, audience>>
    /\ UNCHANGED registry
    /\ IF sessionId = None
       THEN ret' = Err("getSessionInfo", sid, "NotFound")
       ELSE ret' = Ok("getSessionInfo", sid,
                      [session_id |-> sessionId,
                       participants |-> GetOrEmpty(sessions, sessionId),
                       message_count |-> Len(ArrayOf(sessionMessages, sessionId)),
                       session_type |-> IF sessionTypes[sessionId] = None
                                        THEN "human" ELSE sessionTypes[sessionId]])

getPendingCount(sid) ==
    LET sessionId == userToSession[sid] IN
    /\ UNCHANGED <<variant, inflight, now, received, audience>>
    /\ UNCHANGED registry
    /\ IF sessionId = None
       THEN ret' = Ok("getPendingCount", sid, 0)
       ELSE ret' = Ok("getPendingCount", sid,
                      Len(Filtered(ArrayOf(sessionMessages, sessionId), sid)))

\* ------------------------------------------------------------------ Next
\* one more handler step, while the run has steps left
Tick == steps < MaxSteps /\ steps' = steps + 1

Next ==
    \/ \E user_id \in UserIds, session_id \in SessionIds :
          Tick /\ joinSession(user_id, session_id)
    \/ \E sender_id \in UserIds, message \in Texts : Tick /\ send(sender_id, message)
    \/ \E h \in inflight : \E aiMessage \in GenerateAIResponse :
          Tick /\ sendResume(h, aiMessage)
    \/ \E sid \in UserIds : Tick /\ receive(sid)
    \/ \E user_id \in UserIds, guess \in Guesses : Tick /\ answer(user_id, guess)
    \/ \E user_id \in UserIds : Tick /\ leaveSession(user_id)
    \/ \E sid \in UserIds : Tick /\ getSessionInfo(sid)
    \/ \E sid \in UserIds : Tick /\ getPendingCount(sid)

Spec == Init /\ [][Next]_vars

SpecGemini == InitGemini /\ [][Next]_vars

\* one caller on one Automated session, for runs long enough to have three
\* sends suspended at the await and resumed in another order
TickRoom == steps < MaxRoomSteps /\ steps' = steps + 1

NextRoom ==
    \/ TickRoom /\ joinSession("u1", "room")
    \/ \E message \in Texts : TickRoom /\ send("u1", message)
    \/ \E h \in inflight : \E aiMessage \in GenerateAIResponse :
          TickRoom /\ sendResume(h, aiMessage)
    \/ TickRoom /\ receive("u1")

SpecRoom == Init /\ [][NextRoom]_vars

\* callers who stay: two users, each joins while it has no session and
\* nobody leaves or answers; sends stop when MaxLiveClock messages are stored
\* or reserved for the replies of suspended sends.  A
\* client that keeps polling makes receive weakly fair, and the awaited
\* generateAIResponse always settles (its catch block returns a fallback),
\* which makes the second half of send weakly fair.
LiveUsers == {"u1", "u2"}

NextLive ==
    \/ \E user_id \in LiveUsers, session_id \in SessionIds :
          /\ userToSession[user_id] = None
          /\ joinSession(user_id, session_id) /\ UNCHANGED steps
    \/ \E sender_id \in LiveUsers, message \in Texts :
          /\ now + Cardinality(inflight) + 2 <= MaxLiveClock
          /\ send(sender_id, message) /\ UNCHANGED steps
    \/ \E h \in inflight : \E aiMessage \in GenerateAIResponse :
          sendResume(h, aiMessage) /\ UNCHANGED steps
    \/ \E sid \in LiveUsers : receive(sid) /\ UNCHANGED steps

SpecLive ==
    /\ Init
    /\ [][NextLive]_vars
    /\ \A sid \in LiveUsers : WF_vars(receive(sid) /\ UNCHANGED steps)
    /\ WF_vars(\E h \in inflight : \E aiMessage \in GenerateAIResponse :
                  sendResume(h, aiMessage) /\ UNCHANGED steps)

\* ----------------------------------------------------------- observations
\* the array the Map `map` holds for `key`, read in the heap `h`
ArrayIn(h, map, key) == IF map[key] = NoRef THEN <<>> ELSE h[map[key]]

\* the session exists: the participant Map has the key
Exists(s) == sessions[s] # <<>>

Outbox(s) == ArrayIn(heap, sessionMessages, s)
Transcript(s) == ArrayIn(heap, conversationHistory, s)

\* what receive(u) returns when the registry is <<uts, sm, h>>
PendingIn(uts, sm, h, u) ==
    IF uts[u] = None THEN <<>> ELSE Filtered(ArrayIn(h, sm, uts[u]), u)

PendingFor(u) == PendingIn(userToSession, sessionMessages, heap, u)

\* the human participants of s other than u
Peers(s, u) == (Range(sessions[s]) \cap UserIds) \ {u}

\* all five per-session records of s are gone in the next state
Destroyed(s) ==
    /\ sessions'[s] = <<>>
    /\ sessionMessages'[s] = NoRef
    /\ conversationHistory'[s] = NoRef
    /\ sessionTypes'[s] = None
    /\ s \notin aiSessions'

TypeOK ==
    /\ variant \in Variants
    /\ \A s \in SessionIds : sessions[s] \in Seq(UserIds \cup AiIds)
    /\ userToSession \in [UserIds -> SessionIds \cup {None}]
    /\ sessionMessages \in [SessionIds -> Refs \cup {NoRef}]
    /\ conversationHistory \in [SessionIds -> Refs \cup {NoRef}]
    /\ sessionTypes \in [SessionIds -> {"ai", "human", None}]
    /\ aiSessions \subseteq SessionIds
    /\ now \in 0 .. MaxClock
    /\ steps \in 0 .. MaxRoomSteps
    /\ audience \subseteq (1 .. MaxClock) \X (UserIds \cup AiIds)
    /\ Cardinality(inflight) <= MaxInflight


\* ------------------------------------------------------------------ C1
\* C1: in every reachable state no participant list holds more than 2 ids,
\* and every session that exists (has a type record) has 1 or 2 participants.
C1_ParticipantCount ==
    \A s \in SessionIds :
        /\ Len(sessions[s]) <= 2
        /\ sessionTypes[s] # None => Len(sessions[s]) \in {1, 2}

\* a third user was refused on a human session two users had joined
C1_Witness ==
    \E s \in SessionIds \ aiSessions :
        /\ Len(sessions[s]) = 2
        /\ ret = Err("joinSession", ret.user, "ResourceExhausted")
        /\ ~Includes(sessions[s], ret.user)
        /\ \A s2 \in SessionIds \ {s} : ~IsFull(sessions[s2])

\* ------------------------------------------------------------------ C2
\* C2: the reverse index and the participant lists agree in every state:
\* userToSession[u] = s exactly when u is in the participant list of s.
C2_IndexAgrees ==
    \A u \in UserIds, s \in SessionIds :
        (userToSession[u] = s) <=> Includes(sessions[s], u)

\* ------------------------------------------------------------------ C3
\* C3: in every reachable state no user id is in the participant lists of
\* two distinct sessions.
C3_OneSessionPerUser ==
    \A u \in UserIds : \A s1, s2 \in SessionIds :
        (Includes(sessions[s1], u) /\ Includes(sessions[s2], u)) => s1 = s2

\* ------------------------------------------------------------------ C4
\* C4: a message receive has returned to u is discarded for u: it is never
\* again among the messages u's next receive returns (no message is returned
\* by two receive calls of the same user).
C4_DeliveredOnce ==
    \A u \in UserIds : \A i \in 1 .. Len(PendingFor(u)) :
        <<u, PendingFor(u)[i].timestamp>> \notin received

\* ------------------------------------------------------------------ C5
\* C5: right after receive(u) on u's session s, a second receive(u) would
\* return the empty sequence, the outbox of s holds exactly the messages u
\* authored, and the next receive of every other participant of s returns
\* each of them.
C5_ReceiveConsumesOnce ==
    [][\A u \in UserIds :
          (receive(u) /\ userToSession[u] # None) =>
             LET s == userToSession[u]
                 own == Remaining(Outbox(s), u)
             IN /\ PendingIn(userToSession', sessionMessages', heap', u) = <<>>
                /\ ArrayIn(heap', sessionMessages', s) = own
                /\ \A v \in Peers(s, u) : \A i \in 1 .. Len(own) :
                      own[i] \in Range(PendingIn(userToSession', sessionMessages', heap', v))
      ]_vars

\* ------------------------------------------------------------------ C6
\* C6: in an Automated session the first half of an accepted send appends
\* exactly the sender's message to transcript and outbox, and its second
\* half, on the session the send started on, appends exactly one reply tagged
\* is_ai, whatever the generator resolved to; and when no send is in flight
\* on a session its transcript holds as many replies as human messages.
IsReply(msg) == msg.is_ai
IsHuman(msg) == ~msg.is_ai

C6_TwoEntriesPerSend ==
    /\ [][\A u \in UserIds, text \in Texts :
             (send(u, text) /\ inflight' # inflight) =>
                LET s == userToSession[u]
                    m == StoredMessage(u, text, FALSE)
                IN /\ ArrayIn(heap', conversationHistory', s) = Append(Transcript(s), m)
                   /\ ArrayIn(heap', sessionMessages', s) = Append(Outbox(s), m)
         ]_vars
    /\ [][\A h \in inflight : \A aiMessage \in GenerateAIResponse :
             (sendResume(h, aiMessage)
                /\ Exists(h.sessionId)
                /\ conversationHistory[h.sessionId] = h.persistentHistory) =>
                LET s == h.sessionId
                    r == StoredMessage(h.aiParticipant, aiMessage, TRUE)
                IN /\ ArrayIn(heap', conversationHistory', s) = Append(Transcript(s), r)
                   /\ ArrayIn(heap', sessionMessages', s) = Append(Outbox(s), r)
         ]_vars
    /\ [](\A s \in aiSessions :
             (\A h \in inflight : h.sessionId # s) =>
                Len(SelectSeq(Transcript(s), IsReply))
                   = Len(SelectSeq(Transcript(s), IsHuman)))

\* ------------------------------------------------------------------ C7
\* C7: the transcript of an Automated session strictly alternates human
\* message, reply, human message, reply: a human message is never followed
\* by anything but its reply.
C7_TranscriptAlternates ==
    \A s \in aiSessions : \A i \in 1 .. Len(Transcript(s)) :
        Transcript(s)[i].is_ai = (i % 2 = 0)

\* ------------------------------------------------------------------ C8
\* C8: a successful leaveSession(u) or answer(u, guess) leaves u without a
\* reverse-index entry and in no participant list; u's session is destroyed
\* (all five records) when nobody else is left or its kind is "ai", and is
\* otherwise retained with exactly the other participant.
CleanedUp(u) ==
    LET s == userToSession[u]
        rest == Without(sessions[s], u)
    IN /\ userToSession'[u] = None
       /\ \A s2 \in SessionIds : ~Includes(sessions'[s2], u)
       /\ IF Len(rest) = 0 \/ sessionTypes[s] = "ai"
          THEN Destroyed(s)
          ELSE /\ sessions'[s] = rest
               /\ UNCHANGED <<sessionMessages, conversationHistory, sessionTypes,
                              aiSessions, heap>>

C8_LeaveAnswerCleanup ==
    [][\A u \in UserIds :
          /\ (leaveSession(u) /\ userToSession[u] # None) => CleanedUp(u)
          /\ \A guess \in Guesses :
                (answer(u, guess) /\ ret'.status = "ok") => CleanedUp(u)
      ]_vars

\* ------------------------------------------------------------------ C9
\* C9: joinSession(u, s) on a session with 2 participants that u is not one
\* of throws ResourceExhausted and changes nothing in the registry; and the
\* participant list of a session with an AI participant never changes while
\* the session exists.
C9_FullJoinRejected ==
    [][/\ \A u \in UserIds, s \in SessionIds :
             (Len(sessions[s]) = 2 /\ ~Includes(sessions[s], u) /\ joinSession(u, s)) =>
                /\ ret' = Err("joinSession", u, "ResourceExhausted")
                /\ UNCHANGED registry
       /\ \A s \in aiSessions :
             /\ Len(sessions[s]) = 2
             /\ Cardinality(Range(sessions[s]) \cap UserIds) <= 1
             /\ s \in aiSessions' => sessions'[s] = sessions[s]
      ]_vars

\* a human was refused on the Automated session, the only full session
C9_Witness ==
    /\ ret = Err("joinSession", ret.user, "ResourceExhausted")
    /\ \E s \in aiSessions :
          /\ ~Includes(sessions[s], ret.user)
          /\ \A s2 \in SessionIds \ {s} : ~IsFull(sessions[s2])

\* ----------------------------------------------------------------- C10
\* C10: send by a sender with no reverse-index entry throws NotFound, send by
\* a sender whose session has fewer than 2 participants throws
\* FailedPrecondition, and in both cases no outbox and no transcript changes.
C10_SendRejected ==
    [][\A u \in UserIds, text \in Texts :
          /\ (userToSession[u] = None /\ send(u, text)) =>
                /\ ret' = Err("send", u, "NotFound")
                /\ UNCHANGED <<sessionMessages, conversationHistory, heap>>
          /\ (userToSession[u] # None /\ Len(sessions[userToSession[u]]) < 2
                /\ send(u, text)) =>
                /\ ret' = Err("send", u, "FailedPrecondition")
                /\ UNCHANGED <<sessionMessages, conversationHistory, heap>>
      ]_vars

\* a send was refused on a human session that had been matched (it holds
\* messages) and dropped back to one participant
C10_Witness ==
    /\ ret = Err("send", ret.user, "FailedPrecondition")
    /\ LET s == userToSession[ret.user]
       IN /\ s # None
          /\ sessionTypes[s] = "human"
          /\ Len(sessions[s]) = 1
          /\ Len(Transcript(s)) > 0

\* ----------------------------------------------------------------- C11
\* C11: joinSession(u, s) by a user already in the participant list of s
\* reports "already in session" and changes nothing in the registry, and
\* afterwards the requests of u still resolve to s (the reverse index maps
\* u to s).
C11_JoinIdempotent ==
    [][\A u \in UserIds, s \in SessionIds :
          (Includes(sessions[s], u) /\ joinSession(u, s)) =>
             /\ ret' = Ok("joinSession", u, "already_in")
             /\ UNCHANGED registry
             /\ userToSession'[u] = s
      ]_vars

C16_ReplyAuthor ==
    [][/\ \A s \in aiSessions :
             Len(sessions[s]) = 2 => sessions[s][2] \in AiIds \ UserIds
       /\ \A h \in inflight : \A aiMessage \in GenerateAIResponse :
             sendResume(h, aiMessage) =>
                LET r == StoredMessage(h.aiParticipant, aiMessage, TRUE)
                IN /\ h.aiParticipant \in AiIds \ UserIds
                   /\ r.sender_id # h.sender_id
                   /\ userToSession[h.sender_id] = h.sessionId =>
                         r \in Range(PendingIn(userToSession', sessionMessages',
                                               heap', h.sender_id))
      ]_vars

\* ----------------------------------------------------------------- C17
\* C17: a successful leaveSession or answer by the last user of a session
\* leaves that user without a reverse-index entry; and for a user without a
\* reverse-index entry getSessionInfo, send and leaveSession throw NotFound,
\* getPendingCount returns 0 and receive returns no messages, none of them
\* changing the registry.
C17_NoSessionAfterLast ==
    [][\A u \in UserIds :
          /\ ( /\ userToSession[u] # None
               /\ Range(Without(sessions[userToSession[u]], u)) \subseteq AiIds
               /\ \/ leaveSession(u)
                  \/ \E guess \in Guesses : answer(u, guess) ) =>
                userToSession'[u] = None
          /\ userToSession[u] = None =>
                /\ getSessionInfo(u) =>
                      /\ ret' = Err("getSessionInfo", u, "NotFound")
                      /\ UNCHANGED registry
                /\ \A text \in Texts : send(u, text) =>
                      /\ ret' = Err("send", u, "NotFound")
                      /\ UNCHANGED registry
                /\ leaveSession(u) =>
                      /\ ret' = Err("leaveSession", u, "NotFound")
                      /\ UNCHANGED registry
                /\ getPendingCount(u) =>
                      /\ ret' = Ok("getPendingCount", u, 0)
                      /\ UNCHANGED registry
                /\ receive(u) =>
                      /\ ret' = Received(u, <<>>)
                      /\ UNCHANGED registry
      ]_vars

\* ----------------------------------------------------------------- C18
\* C18: in every state between handler steps the participant Map, the
\* outbox Map, the transcript Map and the kind Map hold the same session
\* ids, also after a session was destroyed while a send on it was suspended
\* at the await and that send has resumed.
C18_SameKeys ==
    \A s \in SessionIds :
        /\ Exists(s) <=> sessionMessages[s] # NoRef
        /\ Exists(s) <=> conversationHistory[s] # NoRef
        /\ Exists(s) <=> sessionTypes[s] # None

\* ----------------------------------------------------------------- C19
\* C19: across every step that does not destroy the session, the old
\* transcript of an existing session is a prefix of the new one; receive,
\* getSessionInfo, getPendingCount and the join of a second participant
\* leave every transcript as it is; and receive changes nothing in the
\* registry but the outbox of the caller's session.
IsPrefix(a, b) == Len(a) <= Len(b) /\ SubSeq(b, 1, Len(a)) = a

TranscriptAfter(s) == ArrayIn(heap', conversationHistory', s)

C19_TranscriptAppendOnly ==
    [][/\ \A s \in SessionIds :
             (Exists(s) /\ sessions'[s] # <<>>) =>
                IsPrefix(Transcript(s), TranscriptAfter(s))
       /\ \A u \in UserIds :
             /\ (ret'.user = u /\ receive(u)) =>
                   /\ UNCHANGED <<sessions, userToSession, conversationHistory,
                                  sessionTypes, aiSessions>>
                   /\ \A s \in SessionIds :
                         /\ TranscriptAfter(s) = Transcript(s)
                         /\ s # userToSession[u] =>
                               /\ sessionMessages'[s] = sessionMessages[s]
                               /\ ArrayIn(heap', sessionMessages', s) = Outbox(s)
                   /\ \A h \in inflight :
                         /\ heap'[h.existingMessages] = heap[h.existingMessages]
                         /\ heap'[h.persistentHistory] = heap[h.persistentHistory]
             /\ (ret'.user = u /\ (getSessionInfo(u) \/ getPendingCount(u))) =>
                   \A s \in SessionIds : TranscriptAfter(s) = Transcript(s)
             /\ \A s \in SessionIds :
                   (Len(sessions[s]) = 1 /\ ~Includes(sessions[s], u)
                      /\ ret'.user = u /\ joinSession(u, s)) =>
                      TranscriptAfter(s) = Transcript(s)
      ]_vars

\* a receive has just returned messages: they are gone from the outbox of
\* the caller's session and still in its transcript
C19_Witness ==
    /\ ret.op = "receive" /\ ret.status = "ok"
    /\ Len(ret.body.records) > 0
    /\ userToSession[ret.user] # None
    /\ \A i \in 1 .. Len(ret.body.records) :
          /\ ret.body.records[i] \in Range(Transcript(userToSession[ret.user]))
          /\ ret.body.records[i] \notin Range(Outbox(userToSession[ret.user]))

\* ----------------------------------------------------------------- C20
\* C20: a recipient sees the other party's messages in send order across
\* successive receives: every message its next receive would return for the
\* first time was stored after every message it has been returned before.
C20_SendOrder ==
    \A u \in UserIds : \A i \in 1 .. Len(PendingFor(u)) :
        <<u, PendingFor(u)[i].timestamp>> \notin received =>
            \A p \in received :
                p[1] = u => p[2] < PendingFor(u)[i].timestamp

\* ----------------------------------------------------------------- C21
\* C21: getPendingCount and getSessionInfo change nothing in the registry;
\* getPendingCount(u) returns the number of messages a receive(u) in the
\* same state returns; right after receive(u) that number is 0, and after a
\* receive(u) it becomes positive only in a step that stores a message of
\* somebody other than u.
PendingAfter(u) == PendingIn(userToSession', sessionMessages', heap', u)

\* this step created a StoredMessage whose sender is not u
StoredByOther(u) ==
    /\ now' = now + 1
    /\ \E r \in Refs : \E i \in 1 .. Len(heap'[r]) :
          /\ heap'[r][i].timestamp = now'
          /\ heap'[r][i].sender_id # u

C21_PendingCount ==
    [][\A u \in UserIds :
          /\ (ret'.user = u /\ getPendingCount(u)) =>
                /\ UNCHANGED registry
                /\ ret'.body = Len(PendingFor(u))
          /\ (ret'.user = u /\ getSessionInfo(u)) => UNCHANGED registry
          /\ (ret'.user = u /\ receive(u)) =>
                /\ Len(ret'.body.messages) = Len(PendingFor(u))
                /\ PendingAfter(u) = <<>>
          /\ ( /\ ret.op = "receive" /\ ret.user = u
               /\ PendingFor(u) = <<>>
               /\ PendingAfter(u) # <<>> ) => StoredByOther(u)
      ]_vars

\* ----------------------------------------------------------------- C22
\* C22: in every reachable state the outbox of an existing session is a
\* subsequence of the transcript of the same session.
RECURSIVE IsSubseq(_, _)
IsSubseq(a, b) ==
    IF a = <<>> THEN TRUE
    ELSE IF b = <<>> THEN FALSE
    ELSE IF Head(a) = Head(b) THEN IsSubseq(Tail(a), Tail(b))
    ELSE IsSubseq(a, Tail(b))

C22_OutboxInTranscript ==
    \A s \in SessionIds : Exists(s) => IsSubseq(Outbox(s), Transcript(s))

\* ----------------------------------------------------------------- C23
\* C23: every message receive has returned to a user was stored while that
\* user was in the participant list of the session it was stored for.
C23_OnlyToParticipants ==
    \A p \in received : <<p[2], p[1]>> \in audience

\* ----------------------------------------------------------------- C24
\* C24: when everybody stays in the one session they joined and keeps
\* polling, every message stored in the outbox of u's session that is a
\* reply or was sent by somebody else is eventually returned to u by a
\* receive.
Addressed(u, t) ==
    /\ userToSession[u] # None
    /\ \E i \in 1 .. Len(Outbox(userToSession[u])) :
          LET msg == Outbox(userToSession[u])[i]
          IN msg.timestamp = t /\ (msg.is_ai \/ msg.sender_id # u)

C24_EventuallyDelivered ==
    \A u \in UserIds : \A t \in 1 .. MaxClock :
        Addressed(u, t) ~> (<<u, t>> \in received)

====
